---- MODULE Spec2Model ----
(***************************************************************************)
(* PlayIntel: the client-held quota tracker (AuthContext: session, query   *)
(* usage, login/logout), the chat page's sendMessage, and the backend's    *)
(* Executor/Repair Loop.                                                   *)
(*                                                                         *)
(* Time is counted in ticks; a calendar month is TicksPerMonth ticks long  *)
(* and month boundaries are the multiples of TicksPerMonth.  Dates that    *)
(* the code keeps as ISO strings (toISOString / new Date(string)) are kept *)
(* as the instant they denote: the round trip is exact to the millisecond. *)
(* localStorage is shared by all page instances (browser tabs) of the      *)
(* origin; React state is per page instance.                               *)
(*                                                                         *)
(* The quota code reads nothing of the chat history, so the actions named  *)
(* after the handlers (SendMessage, Receive, Login, ...) give the handlers'*)
(* effect on the session, the quota and the requests in flight, and Spec   *)
(* and SpecTabs follow that state alone.  SpecChat runs the same handlers  *)
(* with their effect on the chat history and the shown messages as well    *)
(* (SendMessageAndSave, ReceiveAndSave, ...).                              *)
(*                                                                         *)
(* SpecRestore follows a page that is loaded and reloaded while the storage*)
(* may hold text that does not parse.  SpecSignup, SpecWaitlist and        *)
(* SpecWebhook follow the landing site's API routes (/api/signup,          *)
(* /api/waitlist, /api/stripe/webhook) against their tables; the texts     *)
(* these routes compute on are sequences of characters.                    *)
(***************************************************************************)
EXTENDS Integers, Sequences, FiniteSets, Bags, TLC

\* ---------------------------------------------------------------- bounds
TicksPerMonth == 2
MaxNow == 2
MaxUsed == 2
MaxInFlight == 1
MaxChatIds == 2
MaxMessages == 4
MaxDeliveries == 3

\* ------------------------------------------------------------- constants
\* PLAN_LIMITS (AuthContext); -1 means unlimited
PLAN_LIMITS == [free |-> 5, indie |-> 150, studio |-> -1]

\* expiresAt = Date.now() + 7 days, on the tick scale
SessionTtl == 2

\* query_limit assigned by the signup route
SignupQueryLimit(plan) ==
    IF plan = "free" THEN 30 ELSE IF plan = "indie" THEN 150 ELSE -1

Pages == {"tabA", "tabB"}
OneTab == {"tabA"}

Null == [null |-> TRUE]

\* email.toLowerCase() on the addresses the login form is given
ToLowerCase(e) ==
    CASE e = "Free@PlayIntel.io" -> "free@playintel.io"
      [] OTHER -> e

LoginEmails == {"free@playintel.io", "Free@PlayIntel.io", "studio@playintel.io", "nobody@playintel.io"}
FreeEmails == {"free@playintel.io", "Free@PlayIntel.io"}
LoginPasswords == {"free123", "studio123"}

\* first instant of the month after the one holding instant t
getNextQueryResetDate(t) == ((t \div TicksPerMonth) + 1) * TicksPerMonth

\* TEST_ACCOUNTS as evaluated when the module was loaded (queryResetDate is
\* computed once, at module evaluation)
TEST_ACCOUNTS(loadedReset) ==
    [e \in {"free@playintel.io", "studio@playintel.io"} |->
        IF e = "free@playintel.io"
        THEN [password |-> "free123",
              user |-> [id |-> "user_free_001", plan |-> "free", queriesUsed |-> 0,
                        queryLimit |-> PLAN_LIMITS.free, queryResetDate |-> loadedReset]]
        ELSE [password |-> "studio123",
              user |-> [id |-> "user_studio_001", plan |-> "studio", queriesUsed |-> 0,
                        queryLimit |-> PLAN_LIMITS.studio, queryResetDate |-> loadedReset]]]

UserIds == {"user_free_001", "user_studio_001"}

ChatResponses == {"ok", "http_error", "network_error", "bad_body"}

\* useState<string | null>(null): no chat selected
NoChat == 0

\* the texts sendMessage is called with ("" stands for blank input)
InputTexts == {"", "q"}

\* data.answer of a 200 response
ChatAnswer == "Action games dominate with 2,228 titles."

\* the message sendMessage shows when the fetch fails
ErrorMessageText == "Sorry, I encountered an error connecting to the database. Please check that the backend server is running on port 8000."

\* the message sendMessage shows when canQuery() is false
LimitMessageText(plan) ==
    IF plan = "free"
    THEN "You've reached your monthly query limit. Upgrade to Indie ($25/mo) for 150 queries or Studio ($59/mo) for unlimited queries."
    ELSE "You've reached your monthly query limit. Your queries will reset on the 1st of next month."

\* the titles renameChat is given
RenameTitles == {"", "Pricing"}

\* Executor/Repair Loop: repairs allowed beyond the first try
MAX_REPAIR_ATTEMPTS == 2

\* what the Synthesizer may return: candidate queries, or text that cannot
\* be attempted (empty, or prose that is no query)
Queries == {"sql_a", "sql_b"}
SynthOutputs == Queries \cup {"", "I am not sure"}
ExecutionErrors == {"unknown column", "syntax error"}
NoError == "none"
MalformedError == "malformed output"

\* the Intent Router's two labels
Labels == {"Conversational", "Analytical"}
NoLabel == "none"

\* answer texts, as sequences of parts
NoAnswer == << >>
DirectAnswerText == <<"Happy to help. Ask me about games, pricing, genres or tags.">>
InterpretedAnswerText == <<"Action games dominate with 2,228 titles.">>
GracefulFailureText == <<"I can't answer that with the data available.">>

\* ---- the API routes: texts are sequences of characters
\* the addresses and names the forms are given
Ada == <<"a", "@", "b", ".", "c">>
AdaUpper == <<"A", "@", "b", ".", "c">>
AdaPadded == <<" ", "a", "@", "b", ".", "c", " ">>
Bob == <<"x", "@", "b", ".", "c">>
NoAddress == <<"a", "b">>
NameAl == <<"A", "l">>
NameBo == <<" ", "B", "o">>
GoodPassword == <<"s", "e", "c", "r", "e", "t">>
ShortPassword == <<"p", "w">>

\* the signup route's validPlans
validPlans == {"free", "indie", "studio"}

\* the bodies of the POSTs to /api/signup
SignupBase == [name |-> NameAl, email |-> Ada, password |-> GoodPassword, plan |-> "free"]
SignupRequests ==
    {[SignupBase EXCEPT !.email = e] : e \in {Ada, AdaUpper, AdaPadded, Bob, NoAddress, <<>>}}
        \cup {[SignupBase EXCEPT !.name = <<>>],
              [SignupBase EXCEPT !.password = ShortPassword],
              [SignupBase EXCEPT !.plan = "indie"],
              [SignupBase EXCEPT !.plan = "enterprise"]}

\* the route handlers that may run at the same time
Handlers == {"h1", "h2"}

\* the bodies of the POSTs to /api/waitlist
WaitlistBase == [name |-> NameAl, email |-> Ada, role |-> "dev", project |-> <<"g">>]
WaitlistRequests ==
    {[WaitlistBase EXCEPT !.email = e] : e \in {Ada, AdaUpper, AdaPadded, Bob, NoAddress}}
        \cup {[WaitlistBase EXCEPT !.name = NameBo, !.role = "artist", !.project = <<" ">>],
              [WaitlistBase EXCEPT !.name = NameBo, !.email = AdaUpper],
              [WaitlistBase EXCEPT !.name = NameBo, !.email = Bob],
              [WaitlistBase EXCEPT !.role = "producer", !.email = Bob],
              [WaitlistBase EXCEPT !.name = NameBo, !.email = AdaPadded],
              [WaitlistBase EXCEPT !.name = <<>>],
              [WaitlistBase EXCEPT !.role = ""]}

\* Stripe webhook: STRIPE_WEBHOOK_SECRET, and a key the sender may hold
\* instead
WebhookSecret == "whsec_live"
SigningKeys == {WebhookSecret, "whsec_other"}

\* the event types the switch names
KnownEventTypes == {"checkout.session.completed", "customer.subscription.updated",
                    "customer.subscription.deleted", "invoice.payment_failed"}

\* raw request bodies: the JSON text of an event
Bodies == {[type |-> t] : t \in {"checkout.session.completed", "customer.subscription.deleted", "charge.refunded"}}

\* the stripe-signature header: absent, empty, or the signature of a body
\* under a key
NoHeader == [absent |-> TRUE]
EmptyHeader == [empty |-> TRUE]
Sign(body, key) == [signed |-> body, key |-> key]
SignatureHeaders ==
    {NoHeader, EmptyHeader} \cup {Sign(b, k) : b \in Bodies, k \in SigningKeys}

VARIABLES
    now,          \* the wall clock
    lsSession,    \* localStorage[SESSION_KEY]
    lsUsage,      \* localStorage[QUERY_USAGE_KEY_<user id>]
    pc,           \* per page: "closed", "mounting" (module loaded), "ready"
    moduleReset,  \* per page: TEST_ACCOUNTS' queryResetDate of this page load
    session,      \* per page: AuthProvider's session state
    authLoading,  \* per page: AuthProvider's isLoading state
    isLoading,    \* per page: AppPage's isLoading state
    req,          \* per page: the request in flight of the mounted AppPage
    orphans,      \* per page: requests in flight of AppPage instances since unmounted
    outcome       \* per page: how the last sendMessage step ended

clientVars == <<now, lsSession, lsUsage, pc, moduleReset, session, authLoading,
                isLoading, req, orphans, outcome>>

VARIABLES
    rlState,       \* Executor/Repair Loop state
    attemptIndex,  \* 0-based index of the current QueryAttempt
    queryText,     \* the candidate query of the current attempt
    priorError,    \* the error text handed to the next synthesis
    attempts,      \* the QueryAttempts of this request, in order
    result         \* the QueryResult carried by Succeeded

repairVars == <<rlState, attemptIndex, queryText, priorError, attempts, result>>

VARIABLES
    stage,   \* where the /chat request is in the pipeline
    label,   \* the Intent Router's classification
    answer   \* the answer text of the response, as its parts in order

pipeVars == <<stage, label, answer>>

VARIABLES
    messages,       \* per page: AppPage's messages state (what the chat shows)
    chatSessions,   \* per page: AuthProvider's chatSessions state
    currentChatId,  \* per page: AuthProvider's currentChatId state
    lsChats,        \* localStorage[CHAT_HISTORY_KEY_<user id>] (<<>> when absent)
    lsCurrentChat,  \* localStorage[CURRENT_CHAT_KEY_<user id>] (NoChat when absent)
    nextChatId      \* the next id generateChatId gives out

chatVars == <<messages, chatSessions, currentChatId, lsChats, lsCurrentChat, nextChatId>>

VARIABLES
    users,             \* the rows of the users table, in insertion order
    signups,           \* per signup handler: where it is, its request, its status
    waitlist,          \* the rows of the waitlist_log table, in insertion order
    waitlistResponse,  \* the last waitlist request and the status it was given
    handled,           \* the webhook events that reached the switch, in order
    hookResponse       \* the last webhook request and its response

serverVars == <<users, signups, waitlist, waitlistResponse, handled, hookResponse>>

vars == <<clientVars, chatVars, repairVars, pipeVars, serverVars>>

\* ------------------------------------------------------- quota functions
\* canQuery admitting at the limit (<= for <)
canQueryAtLimit(s, t) ==
    IF s = Null THEN FALSE
    ELSE IF s.user.queryLimit = -1 THEN TRUE
    ELSE IF t >= s.user.queryResetDate THEN TRUE
    ELSE s.user.queriesUsed <= s.user.queryLimit

\* canQuery without the unlimited-plan shortcut
canQueryNoUnlimited(s, t) ==
    IF s = Null THEN FALSE
    ELSE IF t >= s.user.queryResetDate THEN TRUE
    ELSE s.user.queriesUsed < s.user.queryLimit

canQuery(s, t) ==
    IF s = Null THEN FALSE
    ELSE IF s.user.queryLimit = -1 THEN TRUE
    ELSE IF t >= s.user.queryResetDate THEN TRUE
    ELSE s.user.queriesUsed < s.user.queryLimit

Max(a, b) == IF a >= b THEN a ELSE b

getRemainingQueries(s, t) ==
    IF s = Null THEN 0
    ELSE IF s.user.queryLimit = -1 THEN -1
    ELSE IF t >= s.user.queryResetDate THEN s.user.queryLimit
    ELSE Max(0, s.user.queryLimit - s.user.queriesUsed)

\* incrementQueryCount resetting the count but keeping the old reset date
updatedSessionKeepReset(s, t) ==
    IF t >= s.user.queryResetDate
    THEN [s EXCEPT !.user.queriesUsed = 1]
    ELSE [s EXCEPT !.user.queriesUsed = s.user.queriesUsed + 1]

\* incrementQueryCount carrying the old count into the new period
updatedSessionCarryOver(s, t) ==
    IF t >= s.user.queryResetDate
    THEN [s EXCEPT !.user.queriesUsed = s.user.queriesUsed + 1,
                   !.user.queryResetDate = getNextQueryResetDate(t)]
    ELSE [s EXCEPT !.user.queriesUsed = s.user.queriesUsed + 1]

\* the session incrementQueryCount builds from the session it closes over
updatedSession(s, t) ==
    IF t >= s.user.queryResetDate
    THEN [s EXCEPT !.user.queriesUsed = 1,
                   !.user.queryResetDate = getNextQueryResetDate(t)]
    ELSE [s EXCEPT !.user.queriesUsed = s.user.queriesUsed + 1]

usageOf(s) ==
    [queriesUsed |-> s.user.queriesUsed, queryResetDate |-> s.user.queryResetDate]

\* incrementQueryCount of page p, run with the session s of the render that
\* created the calling closure
incrementQueryCount(p, s) ==
    IF s = Null
    THEN UNCHANGED <<session, lsSession, lsUsage>>
    ELSE LET u == updatedSession(s, now) IN
         /\ session' = [session EXCEPT ![p] = u]
         /\ lsSession' = u
         /\ lsUsage' = [lsUsage EXCEPT ![s.user.id] = usageOf(u)]

\* ---------------------------------------------------------------- Init
\* nothing stored, no page open
InitClient ==
    /\ now = 0
    /\ lsSession = Null
    /\ lsUsage = [u \in UserIds |-> Null]
    /\ pc = [p \in Pages |-> "closed"]
    /\ moduleReset = [p \in Pages |-> 0]
    /\ session = [p \in Pages |-> Null]
    /\ authLoading = [p \in Pages |-> TRUE]
    /\ isLoading = [p \in Pages |-> FALSE]
    /\ req = [p \in Pages |-> Null]
    /\ orphans = [p \in Pages |-> EmptyBag]
    /\ outcome = [p \in Pages |-> "none"]
    /\ messages = [p \in Pages |-> <<>>]
    /\ chatSessions = [p \in Pages |-> <<>>]
    /\ currentChatId = [p \in Pages |-> NoChat]
    /\ lsChats = [u \in UserIds |-> <<>>]
    /\ lsCurrentChat = [u \in UserIds |-> NoChat]
    /\ nextChatId = 1

\* the tables are empty, no handler is running
InitServer ==
    /\ users = <<>>
    /\ signups = [h \in Handlers |-> [pc |-> "idle", request |-> Null, status |-> 0]]
    /\ waitlist = <<>>
    /\ waitlistResponse = Null
    /\ handled = <<>>
    /\ hookResponse = Null

\* the Synthesizer's first output seeds the loop in Pending
InitRepair ==
    /\ rlState = "Pending"
    /\ attemptIndex = 0
    /\ queryText \in SynthOutputs
    /\ priorError = NoError
    /\ attempts = <<>>
    /\ result = Null
    /\ stage = "Loop"
    /\ label = "Analytical"
    /\ answer = NoAnswer

Init ==
    /\ InitClient
    /\ InitServer
    /\ InitRepair
    /\ queryText = "sql_a"

InitRepairLoop ==
    /\ InitClient
    /\ InitServer
    /\ InitRepair

\* ------------------------------------------------------------- actions
Tick ==
    /\ now < MaxNow
    /\ now' = now + 1
    /\ UNCHANGED <<lsSession, lsUsage, pc, moduleReset, session, authLoading,
                   isLoading, req, orphans, outcome, chatVars, repairVars, pipeVars, serverVars>>

\* the browser loads the page: the module is evaluated (TEST_ACCOUNTS) and
\* the components get their initial state
OpenPage(p) ==
    /\ pc[p] = "closed"
    /\ pc' = [pc EXCEPT ![p] = "mounting"]
    /\ moduleReset' = [moduleReset EXCEPT ![p] = getNextQueryResetDate(now)]
    /\ session' = [session EXCEPT ![p] = Null]
    /\ authLoading' = [authLoading EXCEPT ![p] = TRUE]
    /\ isLoading' = [isLoading EXCEPT ![p] = FALSE]
    /\ UNCHANGED <<now, lsSession, lsUsage, req, orphans, outcome, repairVars, pipeVars, serverVars>>

\* the session the mount effect restores from a stored, unexpired session
mergedSession(stored, usage, t) ==
    IF usage = Null THEN stored
    ELSE IF t >= usage.queryResetDate
    THEN [stored EXCEPT !.user.queriesUsed = 0,
                        !.user.queryResetDate = getNextQueryResetDate(t)]
    ELSE [stored EXCEPT !.user.queriesUsed = usage.queriesUsed,
                        !.user.queryResetDate = usage.queryResetDate]

\* a stored text JSON.parse throws on
Corrupt == [corrupt |-> TRUE]

Parsable(v) == v # Corrupt

\* the same for a stored chat history, which is a list when it parses
CorruptList == <<Corrupt>>

ParsableList(v) == v # CorruptList

\* the mount effect gets as far as setSession: the stored session parses
\* and has not expired, and the stored usage record parses
Restorable ==
    /\ lsSession # Null
    /\ Parsable(lsSession)
    /\ lsSession.expiresAt > now
    /\ Parsable(lsUsage[lsSession.user.id])

\* a mount effect that restores a stored session whatever its expiry time
MountEffectNoExpiry(p) ==
    /\ pc[p] = "mounting"
    /\ IF lsSession # Null /\ Parsable(lsSession) /\ Parsable(lsUsage[lsSession.user.id])
       THEN LET parsed == mergedSession(lsSession, lsUsage[lsSession.user.id], now) IN
            /\ session' = [session EXCEPT ![p] = parsed]
            /\ lsSession' = IF ParsableList(lsChats[parsed.user.id]) THEN parsed ELSE Null
       ELSE IF lsSession # Null
       THEN /\ lsSession' = Null
            /\ UNCHANGED session
       ELSE UNCHANGED <<session, lsSession>>
    /\ authLoading' = [authLoading EXCEPT ![p] = FALSE]
    /\ pc' = [pc EXCEPT ![p] = "ready"]
    /\ UNCHANGED <<now, lsUsage, moduleReset, isLoading, req, orphans, outcome, repairVars, pipeVars, serverVars>>

\* AuthProvider's mount effect: whatever throws inside the try block (the
\* session, the usage record or the chat history failing to parse) ends in
\* the catch branch, which removes the stored session; a chat history that
\* fails to parse throws after setSession and setItem have run
MountEffect(p) ==
    /\ pc[p] = "mounting"
    /\ IF Restorable
       THEN LET parsed == mergedSession(lsSession, lsUsage[lsSession.user.id], now) IN
            /\ session' = [session EXCEPT ![p] = parsed]
            /\ lsSession' = IF ParsableList(lsChats[parsed.user.id]) THEN parsed ELSE Null
       ELSE IF lsSession # Null
       THEN /\ lsSession' = Null
            /\ UNCHANGED session
       ELSE UNCHANGED <<session, lsSession>>
    /\ authLoading' = [authLoading EXCEPT ![p] = FALSE]
    /\ pc' = [pc EXCEPT ![p] = "ready"]
    /\ UNCHANGED <<now, lsUsage, moduleReset, isLoading, req, orphans, outcome, repairVars, pipeVars, serverVars>>

\* the tab is closed or reloaded: its React state and its pending fetches go
ClosePage(p) ==
    /\ pc[p] # "closed"
    /\ pc' = [pc EXCEPT ![p] = "closed"]
    /\ moduleReset' = [moduleReset EXCEPT ![p] = 0]
    /\ session' = [session EXCEPT ![p] = Null]
    /\ authLoading' = [authLoading EXCEPT ![p] = TRUE]
    /\ isLoading' = [isLoading EXCEPT ![p] = FALSE]
    /\ req' = [req EXCEPT ![p] = Null]
    /\ orphans' = [orphans EXCEPT ![p] = EmptyBag]
    /\ outcome' = [outcome EXCEPT ![p] = "none"]
    /\ UNCHANGED <<now, lsSession, lsUsage, repairVars, pipeVars, serverVars>>

\* login(email, password), submitted from the login page (shown only while
\* the page is not authenticated)
Login(p, email, password) ==
    /\ pc[p] = "ready"
    /\ session[p] = Null
    /\ LET accounts == TEST_ACCOUNTS(moduleReset[p])
           key == ToLowerCase(email)
       IN IF key \notin DOMAIN accounts
          THEN UNCHANGED <<session, lsSession>>
          ELSE IF accounts[key].password # password
          THEN UNCHANGED <<session, lsSession>>
          ELSE LET newSession == [user |-> accounts[key].user,
                                  expiresAt |-> now + SessionTtl] IN
               /\ session' = [session EXCEPT ![p] = newSession]
               /\ lsSession' = newSession
    /\ UNCHANGED <<now, lsUsage, pc, moduleReset, authLoading, isLoading, req,
                   orphans, outcome, repairVars, pipeVars, serverVars>>

\* logout(); the chat page, no longer authenticated, redirects to the login
\* page and is unmounted, its pending request staying in flight
Logout(p) ==
    /\ pc[p] = "ready"
    /\ session[p] # Null
    /\ session' = [session EXCEPT ![p] = Null]
    /\ lsSession' = Null
    /\ isLoading' = [isLoading EXCEPT ![p] = FALSE]
    /\ req' = [req EXCEPT ![p] = Null]
    /\ orphans' = [orphans EXCEPT ![p] =
                     IF req[p] = Null THEN @ ELSE @ (+) SetToBag({req[p]})]
    /\ outcome' = [outcome EXCEPT ![p] = "none"]
    /\ UNCHANGED <<now, lsUsage, pc, moduleReset, authLoading, repairVars, pipeVars, serverVars>>

\* what a sendMessage call closes over: the text, and the session, the
\* current chat id and the chat sessions of the render it was called from
Closure(p, text) ==
    [text |-> text, session |-> session[p], currentChatId |-> currentChatId[p],
     chatSessions |-> chatSessions[p]]

InFlight(p) == BagCardinality(orphans[p]) + (IF req[p] = Null THEN 0 ELSE 1)

\* sendMessage without the isLoading guard
SendMessageUnguarded(p, text) ==
    /\ pc[p] = "ready"
    /\ session[p] # Null
    /\ IF text = ""
       THEN /\ outcome' = [outcome EXCEPT ![p] = "ignored"]
            /\ UNCHANGED <<isLoading, req>>
       ELSE IF ~canQuery(session[p], now)
       THEN /\ outcome' = [outcome EXCEPT ![p] = "denied"]
            /\ UNCHANGED <<isLoading, req>>
       ELSE /\ InFlight(p) < MaxInFlight + 1
            /\ (session[p].user.queryLimit = -1 => session[p].user.queriesUsed < MaxUsed)
            /\ isLoading' = [isLoading EXCEPT ![p] = TRUE]
            /\ req' = [req EXCEPT ![p] = Closure(p, text)]
            /\ outcome' = [outcome EXCEPT ![p] = "sent"]
    /\ UNCHANGED <<now, lsSession, lsUsage, pc, moduleReset, session, authLoading,
                   orphans, repairVars, pipeVars, serverVars>>

\* sendMessage(text) up to its fetch
SendMessage(p, text) ==
    /\ pc[p] = "ready"
    /\ session[p] # Null
    /\ IF text = "" \/ isLoading[p]
       THEN /\ outcome' = [outcome EXCEPT ![p] = "ignored"]
            /\ UNCHANGED <<isLoading, req>>
       ELSE IF ~canQuery(session[p], now)
       THEN /\ outcome' = [outcome EXCEPT ![p] = "denied"]
            /\ UNCHANGED <<isLoading, req>>
       ELSE /\ InFlight(p) < MaxInFlight
            /\ (session[p].user.queryLimit = -1 => session[p].user.queriesUsed < MaxUsed)
            /\ isLoading' = [isLoading EXCEPT ![p] = TRUE]
            /\ req' = [req EXCEPT ![p] = Closure(p, text)]
            /\ outcome' = [outcome EXCEPT ![p] = "sent"]
    /\ UNCHANGED <<now, lsSession, lsUsage, pc, moduleReset, session, authLoading,
                   orphans, repairVars, pipeVars, serverVars>>

\* sendMessage posting the request again when the fetch fails
ReceiveRetrying(p, resp) ==
    /\ req[p] # Null
    /\ IF resp = "ok"
       THEN /\ incrementQueryCount(p, req[p].session)
            /\ outcome' = [outcome EXCEPT ![p] = "ok"]
            /\ isLoading' = [isLoading EXCEPT ![p] = FALSE]
            /\ req' = [req EXCEPT ![p] = Null]
       ELSE /\ UNCHANGED <<session, lsSession, lsUsage, isLoading, req>>
            /\ outcome' = [outcome EXCEPT ![p] = "retry"]
    /\ UNCHANGED <<now, pc, moduleReset, authLoading, orphans, repairVars, pipeVars, serverVars>>

\* sendMessage from the fetch's settling on, for the mounted chat page
Receive(p, resp) ==
    /\ req[p] # Null
    /\ IF resp = "ok"
       THEN /\ incrementQueryCount(p, req[p].session)
            /\ outcome' = [outcome EXCEPT ![p] = "ok"]
       ELSE /\ UNCHANGED <<session, lsSession, lsUsage>>
            /\ outcome' = [outcome EXCEPT ![p] = "error"]
    /\ isLoading' = [isLoading EXCEPT ![p] = FALSE]
    /\ req' = [req EXCEPT ![p] = Null]
    /\ UNCHANGED <<now, pc, moduleReset, authLoading, orphans, repairVars, pipeVars, serverVars>>

\* the same for a request whose chat page was unmounted meanwhile
ReceiveOrphan(p, r, resp) ==
    /\ r \in BagToSet(orphans[p])
    /\ IF resp = "ok"
       THEN incrementQueryCount(p, r.session)
       ELSE UNCHANGED <<session, lsSession, lsUsage>>
    /\ orphans' = [orphans EXCEPT ![p] = @ (-) SetToBag({r})]
    /\ UNCHANGED <<now, pc, moduleReset, authLoading, isLoading, req, outcome, repairVars, pipeVars, serverVars>>

\* ------------------------------------------------- Executor/Repair Loop
\* every output taken for a query
AttemptableAnything(q) == TRUE

\* whether the Synthesizer's output can be attempted at all
Attemptable(q) == q \in Queries

QueryAttempt(q, o, e) ==
    [index |-> attemptIndex, query |-> q, outcome |-> o, error |-> e]

\* Pending -> Executing; output that cannot be attempted is an immediate
\* Failed with the synthetic error
Begin ==
    /\ rlState = "Pending"
    /\ IF Attemptable(queryText)
       THEN /\ rlState' = "Executing"
            /\ UNCHANGED <<priorError, attempts>>
       ELSE /\ rlState' = "Failed"
            /\ priorError' = MalformedError
            /\ attempts' = Append(attempts, QueryAttempt(queryText, "error", MalformedError))
    /\ UNCHANGED <<attemptIndex, queryText, result, clientVars, chatVars, pipeVars, serverVars>>

\* Executing runs the query against the store and gets rows
ExecuteSuccess ==
    /\ rlState = "Executing"
    /\ rlState' = "Succeeded"
    /\ result' = [query |-> queryText, rowCount |-> 1]
    /\ attempts' = Append(attempts, QueryAttempt(queryText, "success", NoError))
    /\ UNCHANGED <<attemptIndex, queryText, priorError, clientVars, chatVars, pipeVars, serverVars>>

\* Executing runs the query against the store and gets a structural error
ExecuteError(e) ==
    /\ rlState = "Executing"
    /\ rlState' = "Failed"
    /\ priorError' = e
    /\ attempts' = Append(attempts, QueryAttempt(queryText, "error", e))
    /\ UNCHANGED <<attemptIndex, queryText, result, clientVars, chatVars, pipeVars, serverVars>>

\* a repair budget off by one (<= for <)
MayRepairOffByOne(index) == index <= MAX_REPAIR_ATTEMPTS

\* a repair budget of one repair only
MayRepairOnce(index) == index < MAX_REPAIR_ATTEMPTS - 1

\* whether a Failed attempt may be repaired
MayRepair(index) == index < MAX_REPAIR_ATTEMPTS

\* Failed -> Repairing while the budget lasts, and no way out of Failed
\* once it is spent
AfterFailureNoExhausted ==
    /\ rlState = "Failed"
    /\ rlState' = IF MayRepair(attemptIndex) THEN "Repairing" ELSE "Failed"
    /\ UNCHANGED <<attemptIndex, queryText, priorError, attempts, result, clientVars, chatVars, pipeVars, serverVars>>

\* Failed -> Repairing while the budget lasts, else Exhausted
AfterFailure ==
    /\ rlState = "Failed"
    /\ rlState' = IF MayRepair(attemptIndex) THEN "Repairing" ELSE "Exhausted"
    /\ UNCHANGED <<attemptIndex, queryText, priorError, attempts, result, clientVars, chatVars, pipeVars, serverVars>>

\* Repairing: the Synthesizer, given the prior error, returns q
Repair(q) ==
    /\ rlState = "Repairing"
    /\ attemptIndex' = attemptIndex + 1
    /\ queryText' = q
    /\ IF Attemptable(q)
       THEN /\ rlState' = "Executing"
            /\ UNCHANGED <<priorError, attempts>>
       ELSE /\ rlState' = "Failed"
            /\ priorError' = MalformedError
            /\ attempts' = Append(attempts,
                   [index |-> attemptIndex + 1, query |-> q, outcome |-> "error",
                    error |-> MalformedError])
    /\ UNCHANGED <<result, clientVars, chatVars, pipeVars, serverVars>>

NextRepair ==
    \/ Begin
    \/ ExecuteSuccess
    \/ \E e \in ExecutionErrors : ExecuteError(e)
    \/ AfterFailure
    \/ \E q \in SynthOutputs : Repair(q)

SpecRepair == InitRepairLoop /\ [][NextRepair]_vars

\* the loop is sequential code: it takes its next step whenever it has one
SpecRepairLive == InitRepairLoop /\ [][NextRepair]_vars /\ WF_vars(NextRepair)

\* ------------------------------------------------ the /chat pipeline
\* an admitted request waits for the Intent Router; nothing synthesized yet
InitPipeline ==
    /\ InitClient
    /\ InitServer
    /\ rlState = "Idle"
    /\ attemptIndex = 0
    /\ queryText = ""
    /\ priorError = NoError
    /\ attempts = <<>>
    /\ result = Null
    /\ stage = "Router"
    /\ label = NoLabel
    /\ answer = NoAnswer

\* a router that sends every request down the data path
ClassifyAlwaysAnalytical(l) ==
    /\ stage = "Router"
    /\ label' = l
    /\ stage' = "Schema"
    /\ UNCHANGED <<answer, repairVars, clientVars, chatVars, serverVars>>

\* Intent Router: classify(question, history) returns l
Classify(l) ==
    /\ stage = "Router"
    /\ label' = l
    /\ stage' = IF l = "Conversational" THEN "Direct" ELSE "Schema"
    /\ UNCHANGED <<answer, repairVars, clientVars, chatVars, serverVars>>

\* conversational: the direct answer, without touching the dataset
DirectAnswer ==
    /\ stage = "Direct"
    /\ answer' = DirectAnswerText
    /\ stage' = "Responded"
    /\ UNCHANGED <<label, repairVars, clientVars, chatVars, serverVars>>

\* Schema Context Builder: build()
BuildSchema ==
    /\ stage = "Schema"
    /\ stage' = "Synthesizer"
    /\ UNCHANGED <<label, answer, repairVars, clientVars, chatVars, serverVars>>

\* Query Synthesizer: the first output q seeds the loop in Pending
Synthesize(q) ==
    /\ stage = "Synthesizer"
    /\ stage' = "Loop"
    /\ rlState' = "Pending"
    /\ queryText' = q
    /\ UNCHANGED <<attemptIndex, priorError, attempts, result, label, answer, clientVars, chatVars, serverVars>>

\* Result Interpreter: interpret(question, result)
Interpret ==
    /\ stage = "Loop"
    /\ rlState = "Succeeded"
    /\ stage' = "Interpreter"
    /\ UNCHANGED <<label, answer, repairVars, clientVars, chatVars, serverVars>>

\* the response of the analytical path
Respond ==
    /\ stage = "Interpreter"
    /\ answer' = InterpretedAnswerText
    /\ stage' = "Responded"
    /\ UNCHANGED <<label, repairVars, clientVars, chatVars, serverVars>>

\* a failure path that passes the last error on to the caller
GracefulFailureWithError ==
    /\ stage = "Loop"
    /\ rlState = "Exhausted"
    /\ answer' = <<"Sorry, that failed: ", priorError>>
    /\ stage' = "Responded"
    /\ UNCHANGED <<label, repairVars, clientVars, chatVars, serverVars>>

\* RepairExhausted: the graceful-failure path
GracefulFailure ==
    /\ stage = "Loop"
    /\ rlState = "Exhausted"
    /\ answer' = GracefulFailureText
    /\ stage' = "Responded"
    /\ UNCHANGED <<label, repairVars, clientVars, chatVars, serverVars>>

NextPipeline ==
    \/ \E l \in Labels : Classify(l)
    \/ DirectAnswer
    \/ BuildSchema
    \/ \E q \in SynthOutputs : Synthesize(q)
    \/ NextRepair
    \/ Interpret
    \/ Respond
    \/ GracefulFailure

SpecPipeline == InitPipeline /\ [][NextPipeline]_vars

\* ------------------------------------------------------- chat history
\* A stored message is [role, content]; a shown message has isLoading as
\* well.  Ids and timestamps of messages, and the createdAt / updatedAt of
\* a chat, are written and never read by the code followed here, and are
\* left out.
userMessage(text) == [role |-> "user", content |-> text]
assistantMessage(content) == [role |-> "assistant", content |-> content]
loadingMessage == [role |-> "assistant", content |-> "", isLoading |-> TRUE]
Shown(m) == [role |-> m.role, content |-> m.content, isLoading |-> FALSE]

\* generateChatTitle of a first message (the texts here are under 40
\* characters, so slice(0, 40) keeps them whole)
generateChatTitle(m) == m.content

\* the ChatSession createNewChat builds
NewChatSession(id) == [id |-> id, title |-> "New Chat", messages |-> <<>>]

ChatIds(chats) == {chats[i].id : i \in 1..Len(chats)}

\* chatSessions.find(chat => chat.id === id)
FindChat(chats, id) == chats[CHOOSE i \in 1..Len(chats) : chats[i].id = id]

\* getCurrentMessages
getCurrentMessages(chats, id) ==
    IF id = NoChat THEN <<>>
    ELSE IF id \in ChatIds(chats) THEN FindChat(chats, id).messages
    ELSE <<>>

\* AppPage's effect on currentChatId: the stored messages, as shown ones
LoadedMessages(chats, id) ==
    LET stored == getCurrentMessages(chats, id)
    IN [i \in 1..Len(stored) |-> Shown(stored[i])]

\* prev.slice(0, -1)
DropLast(s) == SubSeq(s, 1, Len(s) - 1)

\* chats.filter(chat => chat.id !== id)
RECURSIVE WithoutChat(_, _)
WithoutChat(chats, id) ==
    IF chats = <<>> THEN <<>>
    ELSE IF Head(chats).id = id THEN WithoutChat(Tail(chats), id)
    ELSE <<Head(chats)>> \o WithoutChat(Tail(chats), id)

RECURSIVE TotalMessages(_)
TotalMessages(chats) ==
    IF chats = <<>> THEN 0
    ELSE Len(Head(chats).messages) + TotalMessages(Tail(chats))

\* saveMessage's updater: prev.map(...) appending m to the chat chatId
AppendTo(chats, chatId, m) ==
    [i \in 1..Len(chats) |->
        IF chats[i].id = chatId
        THEN [chats[i] EXCEPT
                 !.messages = Append(chats[i].messages, m),
                 !.title = IF Len(chats[i].messages) = 0 /\ m.role = "user"
                           THEN generateChatTitle(m) ELSE chats[i].title]
        ELSE chats[i]]

\* saveMessage(m), run from a closure c while the chatSessions state is
\* live and generateChatId gives n: the chat sessions it leaves, and
\* whether it called createNewChat
saveMessage(c, live, n, m) ==
    LET create == c.currentChatId = NoChat
        chatId == IF create THEN n ELSE c.currentChatId
        prev == IF create THEN <<NewChatSession(n)>> \o c.chatSessions ELSE live
    IN [chatSessions |-> AppendTo(prev, chatId, m), created |-> create]

\* saveMessage(m) of page p from closure c: the state and localStorage
\* writes (saveChatSessions and saveCurrentChatId write under the user id
\* of the closure's session)
SaveMessage(p, c, m) ==
    LET s == saveMessage(c, chatSessions[p], nextChatId, m) IN
    /\ chatSessions' = [chatSessions EXCEPT ![p] = s.chatSessions]
    /\ currentChatId' = [currentChatId EXCEPT ![p] = IF s.created THEN nextChatId ELSE @]
    /\ nextChatId' = IF s.created THEN nextChatId + 1 ELSE nextChatId
    /\ lsChats' = IF c.session = Null THEN lsChats
                  ELSE [lsChats EXCEPT ![c.session.user.id] = s.chatSessions]
    /\ lsCurrentChat' = IF c.session = Null \/ ~s.created THEN lsCurrentChat
                        ELSE [lsCurrentChat EXCEPT ![c.session.user.id] = nextChatId]

\* the reply sendMessage makes of the fetch's outcome
ReplyMessage(resp) ==
    assistantMessage(IF resp = "ok" THEN ChatAnswer ELSE ErrorMessageText)

\* sendMessage(text) up to its fetch, with the messages and the chat history
SendMessageAndSave(p, text) ==
    /\ SendMessage(p, text)
    /\ IF text = "" \/ isLoading[p]
       THEN UNCHANGED chatVars
       ELSE IF ~canQuery(session[p], now)
       THEN /\ Len(messages[p]) + 2 <= MaxMessages
            /\ messages' = [messages EXCEPT ![p] =
                    @ \o <<Shown(userMessage(text)),
                           Shown(assistantMessage(LimitMessageText(session[p].user.plan)))>>]
            /\ UNCHANGED <<chatSessions, currentChatId, lsChats, lsCurrentChat, nextChatId>>
       ELSE /\ nextChatId <= MaxChatIds
            /\ TotalMessages(chatSessions[p]) + 2 <= MaxMessages
            /\ Len(messages[p]) + 2 <= MaxMessages
            /\ SaveMessage(p, Closure(p, text), userMessage(text))
            /\ messages' = [messages EXCEPT ![p] =
                    IF currentChatId'[p] # currentChatId[p]
                    THEN LoadedMessages(chatSessions'[p], currentChatId'[p])
                    ELSE @ \o <<Shown(userMessage(text)), loadingMessage>>]

\* sendMessage from the fetch's settling on, with the messages and the chat
\* history
ReceiveAndSave(p, resp) ==
    /\ Receive(p, resp)
    /\ SaveMessage(p, req[p], ReplyMessage(resp))
    /\ messages' = [messages EXCEPT ![p] =
            IF currentChatId'[p] # currentChatId[p]
            THEN LoadedMessages(chatSessions'[p], currentChatId'[p])
            ELSE DropLast(@) \o <<Shown(ReplyMessage(resp))>>]

\* the same for a request whose chat page was unmounted meanwhile: its
\* setMessages goes to the unmounted page; a chat page mounted now loads
\* the messages of the current chat when it mounts and when the id changes
ReceiveOrphanAndSave(p, r, resp) ==
    /\ ReceiveOrphan(p, r, resp)
    /\ SaveMessage(p, r, ReplyMessage(resp))
    /\ messages' = [messages EXCEPT ![p] =
            IF session'[p] # Null
                 /\ (session[p] = Null \/ currentChatId'[p] # currentChatId[p])
            THEN LoadedMessages(chatSessions'[p], currentChatId'[p])
            ELSE @]

\* the mount effect, loading the user's chat history and current chat id,
\* and the chat page's load of the current chat's messages
MountEffectAndLoad(p) ==
    /\ MountEffect(p)
    /\ IF Restorable /\ ParsableList(lsChats[lsSession.user.id])
       THEN LET u == lsSession.user.id IN
            /\ chatSessions' = [chatSessions EXCEPT ![p] = lsChats[u]]
            /\ currentChatId' = [currentChatId EXCEPT ![p] = lsCurrentChat[u]]
            /\ messages' = [messages EXCEPT ![p] = LoadedMessages(lsChats[u], lsCurrentChat[u])]
       ELSE UNCHANGED <<chatSessions, currentChatId, messages>>
    /\ UNCHANGED <<lsChats, lsCurrentChat, nextChatId>>

\* login: the chat history is not read; the chat page mounts and loads the
\* messages of the current chat
LoginAndShow(p, email, password) ==
    /\ Login(p, email, password)
    /\ messages' = [messages EXCEPT ![p] =
            IF session'[p] # Null
            THEN LoadedMessages(chatSessions[p], currentChatId[p]) ELSE @]
    /\ UNCHANGED <<chatSessions, currentChatId, lsChats, lsCurrentChat, nextChatId>>

\* logout: the chat state is emptied, the stored chat history is left
LogoutAndClear(p) ==
    /\ Logout(p)
    /\ chatSessions' = [chatSessions EXCEPT ![p] = <<>>]
    /\ currentChatId' = [currentChatId EXCEPT ![p] = NoChat]
    /\ messages' = [messages EXCEPT ![p] = <<>>]
    /\ UNCHANGED <<lsChats, lsCurrentChat, nextChatId>>

\* the tab is closed or reloaded
ClosePageAndForget(p) ==
    /\ ClosePage(p)
    /\ chatSessions' = [chatSessions EXCEPT ![p] = <<>>]
    /\ currentChatId' = [currentChatId EXCEPT ![p] = NoChat]
    /\ messages' = [messages EXCEPT ![p] = <<>>]
    /\ UNCHANGED <<lsChats, lsCurrentChat, nextChatId>>

\* the chat page is shown: the page is ready and authenticated
ChatPageShown(p) == pc[p] = "ready" /\ session[p] # Null

\* handleNewChat: createNewChat(), setMessages([])
handleNewChat(p) ==
    /\ ChatPageShown(p)
    /\ nextChatId <= MaxChatIds
    /\ LET updatedSessions == <<NewChatSession(nextChatId)>> \o chatSessions[p]
           u == session[p].user.id
       IN /\ chatSessions' = [chatSessions EXCEPT ![p] = updatedSessions]
          /\ currentChatId' = [currentChatId EXCEPT ![p] = nextChatId]
          /\ lsChats' = [lsChats EXCEPT ![u] = updatedSessions]
          /\ lsCurrentChat' = [lsCurrentChat EXCEPT ![u] = nextChatId]
    /\ nextChatId' = nextChatId + 1
    /\ messages' = [messages EXCEPT ![p] = <<>>]
    /\ UNCHANGED <<clientVars, repairVars, pipeVars, serverVars>>

\* handleSelectChat(chatId), from the sidebar's list of chatSessions
handleSelectChat(p, chatId) ==
    /\ ChatPageShown(p)
    /\ chatId \in ChatIds(chatSessions[p])
    /\ currentChatId' = [currentChatId EXCEPT ![p] = chatId]
    /\ lsCurrentChat' = [lsCurrentChat EXCEPT ![session[p].user.id] = chatId]
    /\ messages' = [messages EXCEPT ![p] =
            IF chatId # currentChatId[p]
            THEN LoadedMessages(chatSessions[p], chatId) ELSE @]
    /\ UNCHANGED <<chatSessions, lsChats, nextChatId, clientVars, repairVars, pipeVars, serverVars>>

\* handleDeleteChat(chatId)
handleDeleteChat(p, chatId) ==
    /\ ChatPageShown(p)
    /\ chatId \in ChatIds(chatSessions[p])
    /\ LET updated == WithoutChat(chatSessions[p], chatId)
           u == session[p].user.id
           newCurrentId == IF updated # <<>> THEN updated[1].id ELSE NoChat
       IN /\ chatSessions' = [chatSessions EXCEPT ![p] = updated]
          /\ lsChats' = [lsChats EXCEPT ![u] = updated]
          /\ IF currentChatId[p] = chatId
             THEN /\ currentChatId' = [currentChatId EXCEPT ![p] = newCurrentId]
                  /\ lsCurrentChat' = [lsCurrentChat EXCEPT ![u] = newCurrentId]
                  /\ messages' = [messages EXCEPT ![p] = LoadedMessages(updated, newCurrentId)]
             ELSE UNCHANGED <<currentChatId, lsCurrentChat, messages>>
    /\ UNCHANGED <<nextChatId, clientVars, repairVars, pipeVars, serverVars>>

\* handleRenameChat(chatId, newTitle)
handleRenameChat(p, chatId, newTitle) ==
    /\ ChatPageShown(p)
    /\ chatId \in ChatIds(chatSessions[p])
    /\ LET updated == [i \in 1..Len(chatSessions[p]) |->
                          IF chatSessions[p][i].id = chatId
                          THEN [chatSessions[p][i] EXCEPT
                                   !.title = IF newTitle = "" THEN "Untitled Chat" ELSE newTitle]
                          ELSE chatSessions[p][i]]
       IN /\ chatSessions' = [chatSessions EXCEPT ![p] = updated]
          /\ lsChats' = [lsChats EXCEPT ![session[p].user.id] = updated]
    /\ UNCHANGED <<messages, currentChatId, lsCurrentChat, nextChatId,
                   clientVars, repairVars, pipeVars, serverVars>>

\* one page instance of the free account, the clock standing still: every
\* handler with the chat history
NextChat ==
    \/ \E p \in OneTab : OpenPage(p) /\ UNCHANGED chatVars
    \/ \E p \in OneTab : MountEffectAndLoad(p)
    \/ \E p \in OneTab : ClosePageAndForget(p)
    \/ \E p \in OneTab, e \in FreeEmails, w \in LoginPasswords : LoginAndShow(p, e, w)
    \/ \E p \in OneTab : LogoutAndClear(p)
    \/ \E p \in OneTab, text \in InputTexts : SendMessageAndSave(p, text)
    \/ \E p \in OneTab, resp \in ChatResponses : ReceiveAndSave(p, resp)
    \/ \E p \in OneTab, resp \in ChatResponses :
          \E r \in BagToSet(orphans[p]) : ReceiveOrphanAndSave(p, r, resp)
    \/ \E p \in OneTab : handleNewChat(p)
    \/ \E p \in OneTab : \E c \in ChatIds(chatSessions[p]) : handleSelectChat(p, c)
    \/ \E p \in OneTab : \E c \in ChatIds(chatSessions[p]) : handleDeleteChat(p, c)
    \/ \E p \in OneTab, title \in RenameTitles :
          \E c \in ChatIds(chatSessions[p]) : handleRenameChat(p, c, title)

SpecChat == Init /\ [][NextChat]_vars

\* one page instance, every operation
Next ==
    \/ Tick
    \/ \E p \in OneTab : OpenPage(p) /\ UNCHANGED chatVars
    \/ \E p \in OneTab : MountEffect(p) /\ UNCHANGED chatVars
    \/ \E p \in OneTab : ClosePage(p) /\ UNCHANGED chatVars
    \/ \E p \in OneTab, e \in LoginEmails, w \in LoginPasswords :
          Login(p, e, w) /\ UNCHANGED chatVars
    \/ \E p \in OneTab : Logout(p) /\ UNCHANGED chatVars
    \/ \E p \in OneTab, text \in InputTexts : SendMessage(p, text) /\ UNCHANGED chatVars
    \/ \E p \in OneTab, resp \in ChatResponses : Receive(p, resp) /\ UNCHANGED chatVars
    \/ \E p \in OneTab, resp \in ChatResponses :
          \E r \in BagToSet(orphans[p]) : ReceiveOrphan(p, r, resp) /\ UNCHANGED chatVars

Spec == Init /\ [][Next]_vars

\* the same, with what happens by itself: time passes and a mounted
\* provider runs its mount effect; nothing makes the user act or the
\* backend answer
SpecLive ==
    /\ Init
    /\ [][Next]_vars
    /\ WF_vars(Tick)
    /\ WF_vars(\E p \in OneTab : MountEffect(p) /\ UNCHANGED chatVars)

\* two page instances sharing localStorage, both used with the free
\* account; nobody logs out
NextTabs ==
    \/ Tick
    \/ \E p \in Pages : OpenPage(p) /\ UNCHANGED chatVars
    \/ \E p \in Pages : MountEffect(p) /\ UNCHANGED chatVars
    \/ \E p \in Pages : ClosePage(p) /\ UNCHANGED chatVars
    \/ \E p \in Pages, e \in FreeEmails, w \in LoginPasswords :
          Login(p, e, w) /\ UNCHANGED chatVars
    \/ \E p \in Pages, text \in InputTexts : SendMessage(p, text) /\ UNCHANGED chatVars
    \/ \E p \in Pages, resp \in ChatResponses : Receive(p, resp) /\ UNCHANGED chatVars

SpecTabs == Init /\ [][NextTabs]_vars

\* something other than this code (the user, an older build) leaves text
\* that does not parse under the session key
CorruptSession ==
    /\ lsSession # Corrupt
    /\ lsSession' = Corrupt
    /\ UNCHANGED <<now, lsUsage, pc, moduleReset, session, authLoading, isLoading,
                   req, orphans, outcome, chatVars, repairVars, pipeVars, serverVars>>

\* the same under the usage key of user u
CorruptUsage(u) ==
    /\ lsUsage[u] # Corrupt
    /\ lsUsage' = [lsUsage EXCEPT ![u] = Corrupt]
    /\ UNCHANGED <<now, lsSession, pc, moduleReset, session, authLoading, isLoading,
                   req, orphans, outcome, chatVars, repairVars, pipeVars, serverVars>>

\* the same under the chat history key of user u
CorruptChats(u) ==
    /\ lsChats[u] # CorruptList
    /\ lsChats' = [lsChats EXCEPT ![u] = CorruptList]
    /\ UNCHANGED <<messages, chatSessions, currentChatId, lsCurrentChat, nextChatId,
                   clientVars, repairVars, pipeVars, serverVars>>

\* one page instance of the free account that is loaded, used and reloaded
\* while time passes and the storage may be left unparsable; nobody logs
\* out
NextRestore ==
    \/ Tick
    \/ \E p \in OneTab : OpenPage(p) /\ UNCHANGED chatVars
    \/ \E p \in OneTab : MountEffect(p) /\ UNCHANGED chatVars
    \/ \E p \in OneTab : ClosePage(p) /\ UNCHANGED chatVars
    \/ \E p \in OneTab, e \in FreeEmails, w \in LoginPasswords :
          Login(p, e, w) /\ UNCHANGED chatVars
    \/ \E p \in OneTab, text \in InputTexts : SendMessage(p, text) /\ UNCHANGED chatVars
    \/ \E p \in OneTab, resp \in ChatResponses : Receive(p, resp) /\ UNCHANGED chatVars
    \/ CorruptSession
    \/ CorruptUsage("user_free_001")
    \/ CorruptChats("user_free_001")

SpecRestore == Init /\ [][NextRestore]_vars

\* ------------------------------------------------------ the API routes
\* s.toLowerCase(), on the letters used here
toLowerCase(s) == [i \in 1..Len(s) |-> IF s[i] = "A" THEN "a" ELSE s[i]]

RECURSIVE trimStart(_)
trimStart(s) == IF s # <<>> /\ Head(s) = " " THEN trimStart(Tail(s)) ELSE s

RECURSIVE trimEnd(_)
trimEnd(s) ==
    IF s # <<>> /\ s[Len(s)] = " " THEN trimEnd(SubSeq(s, 1, Len(s) - 1)) ELSE s

\* s.trim()
trim(s) == trimEnd(trimStart(s))

\* s[a..b] matches [^\s@]+
NoSpaceNoAt(s, a, b) == a <= b /\ \A k \in a..b : s[k] \notin {" ", "@"}

\* /^[^\s@]+@[^\s@]+\.[^\s@]+$/.test(s)
emailRegexTest(s) ==
    \E i, j \in 1..Len(s) :
        /\ i < j
        /\ s[i] = "@"
        /\ s[j] = "."
        /\ NoSpaceNoAt(s, 1, i - 1)
        /\ NoSpaceNoAt(s, i + 1, j - 1)
        /\ NoSpaceNoAt(s, j + 1, Len(s))

\* email.toLowerCase().trim()
NormalizedEmail(e) == trim(toLowerCase(e))

\* the rows of a table whose email column is e
RowsOf(table, e) == {i \in 1..Len(table) : table[i].email = e}

\* the row the signup route inserts
UserRow(r) ==
    [email |-> NormalizedEmail(r.email), name |-> trim(r.name), plan |-> r.plan,
     queries_used |-> 0, query_limit |-> SignupQueryLimit(r.plan),
     signup_completed |-> (r.plan = "free"),
     stripe_checkout_pending |-> (r.plan # "free")]

\* the status the signup route answers with before it inserts: the
\* validations, then the select on the normalized email (0: none yet)
SignupStatusBeforeInsert(r, table) ==
    IF r.name = <<>> \/ r.email = <<>> \/ r.password = <<>> \/ r.plan = "" THEN 400
    ELSE IF ~emailRegexTest(r.email) THEN 400
    ELSE IF Len(r.password) < 6 THEN 400
    ELSE IF r.plan \notin validPlans THEN 400
    ELSE IF RowsOf(table, NormalizedEmail(r.email)) # {} THEN 409
    ELSE 0

\* POST /api/signup up to the answer of its select
SignupCheck(h, r) ==
    /\ signups[h].pc = "idle"
    /\ LET status == SignupStatusBeforeInsert(r, users) IN
       signups' = [signups EXCEPT ![h] =
                      [pc |-> IF status = 0 THEN "inserting" ELSE "idle",
                       request |-> r, status |-> status]]
    /\ UNCHANGED <<users, waitlist, waitlistResponse, handled, hookResponse,
                   clientVars, chatVars, repairVars, pipeVars>>

\* POST /api/signup from its insert on: the table's UNIQUE(email) refuses
\* a second row, and the route answers an insert error with 500
SignupInsert(h) ==
    /\ signups[h].pc = "inserting"
    /\ LET row == UserRow(signups[h].request) IN
       IF RowsOf(users, row.email) # {}
       THEN /\ signups' = [signups EXCEPT ![h].pc = "idle", ![h].status = 500]
            /\ UNCHANGED users
       ELSE /\ signups' = [signups EXCEPT ![h].pc = "idle", ![h].status = 200]
            /\ users' = Append(users, row)
    /\ UNCHANGED <<waitlist, waitlistResponse, handled, hookResponse,
                   clientVars, chatVars, repairVars, pipeVars>>

NextSignup ==
    \/ \E h \in Handlers, r \in SignupRequests : SignupCheck(h, r)
    \/ \E h \in Handlers : SignupInsert(h)

SpecSignup == Init /\ [][NextSignup]_vars

\* project?.trim() || null
ProjectOrNull(project) == IF trim(project) = <<>> THEN Null ELSE trim(project)

\* the row the waitlist route upserts
WaitlistRow(r) ==
    [email |-> NormalizedEmail(r.email), name |-> trim(r.name), role |-> r.role,
     project |-> ProjectOrNull(r.project)]

\* upsert(row, {onConflict: 'email'}) on a table whose primary key is email
Upsert(table, row) ==
    IF RowsOf(table, row.email) = {} THEN Append(table, row)
    ELSE [i \in 1..Len(table) |-> IF table[i].email = row.email THEN row ELSE table[i]]

\* POST /api/waitlist
WaitlistPost(r) ==
    /\ IF r.name = <<>> \/ r.email = <<>> \/ r.role = ""
       THEN /\ waitlistResponse' = [request |-> r, status |-> 400]
            /\ UNCHANGED waitlist
       ELSE IF ~emailRegexTest(r.email)
       THEN /\ waitlistResponse' = [request |-> r, status |-> 400]
            /\ UNCHANGED waitlist
       ELSE /\ waitlist' = Upsert(waitlist, WaitlistRow(r))
            /\ waitlistResponse' = [request |-> r, status |-> 200]
    /\ UNCHANGED <<users, signups, handled, hookResponse,
                   clientVars, chatVars, repairVars, pipeVars>>

NextWaitlist == \E r \in WaitlistRequests : WaitlistPost(r)

SpecWaitlist == Init /\ [][NextWaitlist]_vars

\* stripe.webhooks.constructEvent(body, signature, secret) returns the
\* event only for the signature of this body under the secret
Verified(body, signature, secret) ==
    signature = Sign(body, secret)

\* a webhook route that takes the event from the body without verifying
\* the signature
WebhookPostUnverified(body, signature) ==
    /\ Len(handled) < MaxDeliveries
    /\ IF signature \in {NoHeader, EmptyHeader}
       THEN /\ hookResponse' = [body |-> body, signature |-> signature,
                                status |-> 400, received |-> FALSE]
            /\ UNCHANGED handled
       ELSE /\ handled' = Append(handled,
                             [type |-> body.type, known |-> body.type \in KnownEventTypes])
            /\ hookResponse' = [body |-> body, signature |-> signature,
                                status |-> 200, received |-> TRUE]
    /\ UNCHANGED <<users, signups, waitlist, waitlistResponse,
                   clientVars, chatVars, repairVars, pipeVars>>

\* POST /api/stripe/webhook
WebhookPost(body, signature) ==
    /\ Len(handled) < MaxDeliveries
    /\ IF signature \in {NoHeader, EmptyHeader}
       THEN /\ hookResponse' = [body |-> body, signature |-> signature,
                                status |-> 400, received |-> FALSE]
            /\ UNCHANGED handled
       ELSE IF ~Verified(body, signature, WebhookSecret)
       THEN /\ hookResponse' = [body |-> body, signature |-> signature,
                                status |-> 400, received |-> FALSE]
            /\ UNCHANGED handled
       ELSE /\ handled' = Append(handled,
                             [type |-> body.type, known |-> body.type \in KnownEventTypes])
            /\ hookResponse' = [body |-> body, signature |-> signature,
                                status |-> 200, received |-> TRUE]
    /\ UNCHANGED <<users, signups, waitlist, waitlistResponse,
                   clientVars, chatVars, repairVars, pipeVars>>

NextWebhook == \E b \in Bodies, sig \in SignatureHeaders : WebhookPost(b, sig)

SpecWebhook == Init /\ [][NextWebhook]_vars


\* ===================================================================
\* Properties
\* ===================================================================
LimitOfUser(u) ==
    IF u = "user_free_001" THEN PLAN_LIMITS.free ELSE PLAN_LIMITS.studio

Limited(s) == s # Null /\ s.user.queryLimit # -1

\* the sessions the requests in flight of page p closed over
Snapshots(p) ==
    (IF req[p] = Null THEN {} ELSE {req[p].session})
        \cup {r.session : r \in BagToSet(orphans[p])}

\* a step of page p in which a request that closed over s completes
\* successfully and is counted
Counted(p, s) ==
    \/ req[p] # Null /\ req[p].session = s /\ Receive(p, "ok")
    \/ \E r \in BagToSet(orphans[p]) : r.session = s /\ ReceiveOrphan(p, r, "ok")

\* a step of page p in which a request fails
Failed(p) ==
    \E resp \in ChatResponses \ {"ok"} :
        \/ Receive(p, resp)
        \/ \E r \in BagToSet(orphans[p]) : ReceiveOrphan(p, r, resp)

\* a sendMessage call of page p that is not ignored
Send(p) == ~isLoading[p] /\ SendMessage(p, "q")

\* r is the first instant of the calendar month after the one holding t
FirstOfNextMonth(r, t) ==
    /\ r % TicksPerMonth = 0
    /\ r > t
    /\ r - t <= TicksPerMonth

\* C1: for every user whose limit is not -1, the number of queries used
\* that is held in a page's session, in the stored session and in the
\* stored usage record never exceeds the limit.
C1_UsedNeverExceedsLimit ==
    /\ \A p \in Pages :
          Limited(session[p]) =>
              session[p].user.queriesUsed <= session[p].user.queryLimit
    /\ Limited(lsSession) => lsSession.user.queriesUsed <= lsSession.user.queryLimit
    /\ \A u \in UserIds :
          (lsUsage[u] # Null /\ LimitOfUser(u) # -1) =>
              lsUsage[u].queriesUsed <= LimitOfUser(u)

\* C1 witness: a free user has used the whole allowance and a send was denied
C1_Witness ==
    \E p \in Pages :
        /\ outcome[p] = "denied"
        /\ Limited(session[p])
        /\ session[p].user.queriesUsed = session[p].user.queryLimit
        /\ lsUsage[session[p].user.id] # Null
        /\ lsUsage[session[p].user.id].queriesUsed = session[p].user.queryLimit

\* a user has exactly one query slot left in the stored usage record
OneSlotLeft(u) ==
    /\ LimitOfUser(u) # -1
    /\ lsUsage[u] # Null
    /\ now < lsUsage[u].queryResetDate
    /\ lsUsage[u].queriesUsed = LimitOfUser(u) - 1

\* C2: when a user has exactly one query slot left, two requests of that
\* user are never both admitted (in flight) at the same time.
C2_AtMostOneAdmitted ==
    \A p, q \in Pages :
        (/\ p # q
         /\ req[p] # Null
         /\ req[q] # Null
         /\ req[p].session.user.id = req[q].session.user.id)
            => ~OneSlotLeft(req[p].session.user.id)

\* a limited user's used count equals the limit and the reset time is ahead
AtLimit(p) ==
    /\ pc[p] = "ready"
    /\ Limited(session[p])
    /\ session[p].user.queriesUsed = session[p].user.queryLimit
    /\ now < session[p].user.queryResetDate

\* C3: a send by a limited user whose used count equals the limit, before
\* the reset time, is denied with remaining = 0 and a reset timestamp, and
\* puts no request to the chat backend in flight.
C3_DeniedAtLimit ==
    [][\A p \in Pages :
          (AtLimit(p) /\ Send(p)) =>
              /\ outcome'[p] = "denied"
              /\ getRemainingQueries(session[p], now) = 0
              /\ session[p].user.queryResetDate \in Nat
              /\ req' = req
              /\ orphans' = orphans
              /\ isLoading' = isLoading]_vars

\* C3 witness: a send was denied at the limit, nothing is in flight
C3_Witness ==
    \E p \in Pages :
        /\ AtLimit(p)
        /\ outcome[p] = "denied"
        /\ req[p] = Null
        /\ orphans[p] = EmptyBag

\* C4: the step that admits a request (puts the call to the chat backend
\* in flight) has already counted it in the quota record, and the step in
\* which the response arrives does not count it.
C4_ReserveBeforeBackend ==
    [][\A p \in Pages :
          /\ (req[p] = Null /\ req'[p] # Null) =>
                 lsUsage'[req'[p].session.user.id] # lsUsage[req'[p].session.user.id]
          /\ (req[p] # Null /\ Receive(p, "ok")) =>
                 lsUsage' = lsUsage]_vars

\* the used count of user u in the current period, by the stored record
UsedInPeriod(u) ==
    IF lsUsage[u] = Null THEN 0
    ELSE IF now >= lsUsage[u].queryResetDate THEN 0
    ELSE lsUsage[u].queriesUsed

\* C5: a request that completes successfully raises the user's used count
\* (counted from 0 once the reset time has passed) by exactly one; a send
\* that is denied and a request that fails leave the quota record as it was.
C5_OneCountPerCompletedRequest ==
    [][\A p \in Pages :
          /\ \A s \in Snapshots(p) :
                Counted(p, s) =>
                    lsUsage'[s.user.id].queriesUsed = UsedInPeriod(s.user.id) + 1
          /\ ((Send(p) /\ outcome'[p] = "denied") \/ Failed(p)) =>
                 /\ lsUsage' = lsUsage
                 /\ lsSession' = lsSession
                 /\ session' = session]_vars

\* the reset timestamp in force for user u when a request that closed over
\* s is counted
ResetInForce(s) ==
    IF lsUsage[s.user.id] # Null
    THEN lsUsage[s.user.id].queryResetDate
    ELSE s.user.queryResetDate

\* C6: once now has reached the reset timestamp, the first request counted
\* afterwards leaves used = 1 and sets the reset timestamp to the first
\* instant of the next calendar month, strictly later than now, in the
\* page's session, the stored session and the stored usage record.
C6_FirstCountAfterReset ==
    [][\A p \in Pages :
          \A s \in Snapshots(p) :
              (Counted(p, s) /\ now >= ResetInForce(s)) =>
                  /\ session'[p].user.queriesUsed = 1
                  /\ FirstOfNextMonth(session'[p].user.queryResetDate, now)
                  /\ lsSession' = session'[p]
                  /\ lsUsage'[s.user.id].queriesUsed = 1
                  /\ FirstOfNextMonth(lsUsage'[s.user.id].queryResetDate, now)]_vars

\* C6 witness: a limited user's session that began before the current
\* month has had a request counted in it, and the record stands at 1 with
\* the reset timestamp at the start of the next month
C6_Witness ==
    \E p \in Pages :
        /\ outcome[p] = "ok"
        /\ now >= TicksPerMonth
        /\ Limited(session[p])
        /\ session[p].user.queriesUsed = 1
        /\ session[p].user.queryResetDate = now - (now % TicksPerMonth) + TicksPerMonth
        /\ lsUsage[session[p].user.id] = usageOf(session[p])
        /\ session[p].expiresAt - SessionTtl < now - (now % TicksPerMonth)

\* C7: while now is before the reset timestamp of the stored usage record,
\* the used count the quota check of a page sees for that user is never
\* below the count already recorded for the period.
C7_UsedNeverDecreases ==
    \A p \in Pages :
        (/\ session[p] # Null
         /\ lsUsage[session[p].user.id] # Null
         /\ now < lsUsage[session[p].user.id].queryResetDate)
            => session[p].user.queriesUsed >= lsUsage[session[p].user.id].queriesUsed

\* C8: a user whose limit is -1 is always allowed to query.
C8_UnlimitedAlwaysAllowed ==
    \A p \in Pages :
        (session[p] # Null /\ session[p].user.queryLimit = -1) =>
            canQuery(session[p], now)

\* C8 witness: an unlimited user, already counted, has a request admitted
\* before the reset time
C8_Witness ==
    \E p \in Pages :
        /\ session[p] # Null
        /\ session[p].user.queryLimit = -1
        /\ session[p].user.queriesUsed >= 1
        /\ now < session[p].user.queryResetDate
        /\ outcome[p] = "sent"

\* C9: a free-plan user is denied only once the 30 queries that signup
\* assigns to a free account have been used.
C9_FreeLimitIsSignupLimit ==
    [][\A p \in Pages :
          (/\ Send(p)
           /\ outcome'[p] = "denied"
           /\ session[p].user.plan = "free")
              => session[p].user.queriesUsed >= SignupQueryLimit("free")]_vars

\* C10: a request performs at most MAX_REPAIR_ATTEMPTS = 2 repairs, that is
\* at most 3 query attempts in all.
C10_RepairBound ==
    /\ attemptIndex <= 2
    /\ Len(attempts) <= 3
    /\ \A i \in 1..Len(attempts) : attempts[i].index = i - 1

\* C10 witness: the first try and both repairs have failed
C10_Witness ==
    /\ rlState = "Exhausted"
    /\ Len(attempts) = 3
    /\ \A i \in 1..3 : attempts[i].outcome = "error"

Terminal == {"Succeeded", "Exhausted"}

\* C11: whatever succeeds and fails, the Executor/Repair Loop eventually
\* is in a terminal state, Succeeded carrying a result or Exhausted carrying
\* none, and once in a terminal state nothing of the loop changes any more.
C11_LoopTerminates ==
    /\ <>(rlState \in Terminal)
    /\ [](rlState = "Succeeded" => result # Null)
    /\ [](rlState = "Exhausted" => result = Null)
    /\ [][(rlState \in Terminal) => (repairVars' = repairVars)]_vars

\* C11 witness: the loop ended in Succeeded, with a result, on its last
\* repair
C11_Witness ==
    /\ rlState = "Succeeded"
    /\ result # Null
    /\ Len(attempts) = 3
    /\ attempts[3].outcome = "success"

\* the last QueryAttempt made
LastAttempt == attempts[Len(attempts)]

\* C12: a Failed attempt goes to Repairing exactly when its attempt index
\* is below MAX_REPAIR_ATTEMPTS = 2 and to Exhausted otherwise; Repairing
\* holds the prior attempt's error text and is followed by the next attempt
\* (index + 1); Exhausted is reached only after three failed attempts.
C12_FailedTransitions ==
    /\ [][/\ (rlState = "Failed") =>
               (/\ rlState' \in {"Repairing", "Exhausted"}
                /\ (rlState' = "Repairing") <=> (attemptIndex < 2))
          /\ (rlState = "Repairing") =>
               (/\ attemptIndex' = attemptIndex + 1
                /\ rlState' \in {"Executing", "Failed"}
                /\ (rlState' = "Executing") => (queryText' \in Queries))]_vars
    /\ [](rlState = "Repairing" =>
            /\ priorError # NoError
            /\ priorError = LastAttempt.error
            /\ LastAttempt.index = attemptIndex)
    /\ [](rlState = "Exhausted" =>
            /\ Len(attempts) = 3
            /\ \A i \in 1..3 : attempts[i].outcome = "error" /\ attempts[i].index = i - 1)

\* C12 witness: the second repair is about to be synthesized from the
\* error of the first repair's execution
C12_Witness ==
    /\ rlState = "Repairing"
    /\ attemptIndex = 1
    /\ Len(attempts) = 2
    /\ priorError \in ExecutionErrors

\* text that is no query: empty, or prose
CannotBeAttempted(q) == q \in {"", "I am not sure"}

\* the attempt recorded for Synthesizer output that cannot be attempted
MalformedAttempt(i, q) ==
    [index |-> i, query |-> q, outcome |-> "error", error |-> MalformedError]

\* C13: Synthesizer output that cannot be attempted (empty or no query)
\* makes its attempt Failed at once, recorded with the synthetic "malformed
\* output" error and never executed, and such attempts use up the same
\* budget of three attempts as execution failures.
C13_MalformedIsFailed ==
    /\ [][/\ (rlState = "Pending" /\ CannotBeAttempted(queryText)) =>
               (/\ rlState' = "Failed"
                /\ priorError' = MalformedError
                /\ attempts' = Append(attempts, MalformedAttempt(attemptIndex, queryText)))
          /\ (rlState = "Repairing" /\ CannotBeAttempted(queryText')) =>
               (/\ rlState' = "Failed"
                /\ priorError' = MalformedError
                /\ attempts' = Append(attempts, MalformedAttempt(attemptIndex + 1, queryText')))]_vars
    /\ [](rlState = "Executing" => ~CannotBeAttempted(queryText))
    /\ [](/\ Len(attempts) <= 3
           /\ \A i \in 1..Len(attempts) :
                 CannotBeAttempted(attempts[i].query) =>
                     attempts[i] = MalformedAttempt(i - 1, attempts[i].query))

\* C13 witness: the budget was spent on output that could not be attempted
\* and on an execution failure together
C13_Witness ==
    /\ rlState = "Exhausted"
    /\ Len(attempts) = 3
    /\ attempts[1].error = MalformedError
    /\ attempts[2].error \in ExecutionErrors
    /\ attempts[3].error = MalformedError

\* an answer text holding the text of an error of the loop
ContainsErrorText(a) ==
    \E i \in 1..Len(a) : a[i] \in ExecutionErrors \cup {MalformedError}

\* C14: while the loop has attempts left (it is in no terminal state) no
\* answer has gone to the caller, and the answer given once every attempt
\* has failed is the plain cannot-answer statement, holding no error text.
C14_ErrorsNotSurfaced ==
    /\ (rlState \in {"Pending", "Executing", "Failed", "Repairing"}) => (answer = NoAnswer)
    /\ ~ContainsErrorText(answer)
    /\ (rlState = "Exhausted" /\ stage = "Responded") => (answer = GracefulFailureText)

\* C14 witness: all three attempts failed on execution errors and the
\* response went out
C14_Witness ==
    /\ rlState = "Exhausted"
    /\ stage = "Responded"
    /\ answer # NoAnswer
    /\ \A i \in 1..3 : attempts[i].error \in ExecutionErrors

\* the stages of the analytical path, in order
AnalyticalOrder == <<"Router", "Schema", "Synthesizer", "Loop", "Interpreter", "Responded">>

\* stage a comes somewhere before stage b on the analytical path
Before(a, b) ==
    \E i, j \in 1..Len(AnalyticalOrder) :
        i < j /\ AnalyticalOrder[i] = a /\ AnalyticalOrder[j] = b

Words(content) ==
    CASE content = ErrorMessageText ->
            <<"sorry", "i", "encountered", "an", "error", "connecting", "to", "the",
              "database", "please", "check", "that", "the", "backend", "server", "is",
              "running", "on", "port", "8000">>
      [] content = LimitMessageText("free") ->
            <<"you've", "reached", "your", "monthly", "query", "limit", "upgrade", "to",
              "indie", "$25/mo", "for", "150", "queries", "or", "studio", "$59/mo",
              "for", "unlimited", "queries">>
      [] content = LimitMessageText("studio") ->
            <<"you've", "reached", "your", "monthly", "query", "limit", "your",
              "queries", "will", "reset", "on", "the", "1st", "of", "next", "month">>
      [] content = ChatAnswer ->
            <<"action", "games", "dominate", "with", "2,228", "titles">>
      [] content = "q" -> <<"q">>
      [] OTHER -> << >>

\* backend and implementation vocabulary
BackendVocabulary == {<<"database">>, <<"query">>, <<"sql">>, <<"backend", "server">>}

\* the text holds one of the phrases
ContainsPhrase(content, phrases) ==
    LET w == Words(content) IN
    \E ph \in phrases : \E i \in 1..Len(w) :
        i + Len(ph) - 1 <= Len(w) /\ SubSeq(w, i, i + Len(ph) - 1) = ph

\* no assistant message of the sequence holds backend vocabulary
NoLeak(msgs) ==
    \A i \in 1..Len(msgs) :
        msgs[i].role = "assistant" => ~ContainsPhrase(msgs[i].content, BackendVocabulary)

\* C15: no assistant message that is shown on a page, held in a page's chat
\* sessions or stored in the chat history holds backend or implementation
\* vocabulary ("database", "query", "sql", "backend server").
C15_NoBackendVocabulary ==
    /\ \A p \in Pages :
          /\ NoLeak(messages[p])
          /\ \A i \in 1..Len(chatSessions[p]) : NoLeak(chatSessions[p][i].messages)
    /\ \A u \in UserIds :
          \A i \in 1..Len(lsChats[u]) : NoLeak(lsChats[u][i].messages)

IsPrefix(a, b) == Len(a) <= Len(b) /\ SubSeq(b, 1, Len(a)) = a

\* chat c of the stored history old is there in new, its messages of old
\* still at the front of its messages, in the same order
MessagesKept(old, new, c) ==
    /\ c \in ChatIds(new)
    /\ IsPrefix(FindChat(old, c).messages, FindChat(new, c).messages)

\* C19: in every step, each session of the stored chat history either is
\* deleted by deleteChat or keeps the messages it had, unaltered and in
\* order, at the front of its messages; renaming leaves every message as
\* it was.
C19_MessagesAppendOnly ==
    [][\A u \in UserIds : \A c \in ChatIds(lsChats[u]) :
          \/ \E p \in Pages : handleDeleteChat(p, c)
          \/ MessagesKept(lsChats[u], lsChats'[u], c)]_vars

\* the user owning the request in flight of page p
Requester(p) == req[p].session.user.id

\* the session sendMessage created for the request of page p is the
\* current one and holds the user message alone, in the page's state and in
\* the stored history
CreatedForRequest(p) ==
    /\ req[p] # Null
    /\ req[p].currentChatId = NoChat
    /\ session[p] # Null
    /\ getCurrentMessages(chatSessions[p], currentChatId[p]) = <<userMessage(req[p].text)>>
    /\ lsChats[Requester(p)] = chatSessions[p]

\* some session of chats holds exactly the messages msgs
HoldsExchange(chats, msgs) == \E i \in 1..Len(chats) : chats[i].messages = msgs

\* C20: a message sent with no chat selected creates exactly one session,
\* which holds the user message; when the reply arrives no further session
\* is created, no session is lost, and one session holds the user message
\* followed by the reply, in the page's state and in the stored history.
C20_OneSessionPerFirstMessage ==
    [][\A p \in Pages :
          /\ (currentChatId[p] = NoChat /\ ~isLoading[p] /\ SendMessageAndSave(p, "q")
                  /\ outcome'[p] = "sent") =>
                 (/\ nextChatId' = nextChatId + 1
                  /\ Len(chatSessions'[p]) = Len(chatSessions[p]) + 1
                  /\ getCurrentMessages(chatSessions'[p], currentChatId'[p]) = <<userMessage("q")>>)
          /\ \A resp \in ChatResponses :
                (CreatedForRequest(p) /\ ReceiveAndSave(p, resp)) =>
                    (/\ nextChatId' = nextChatId
                     /\ Len(chatSessions'[p]) = Len(chatSessions[p])
                     /\ HoldsExchange(chatSessions'[p],
                            <<userMessage(req[p].text), ReplyMessage(resp)>>)
                     /\ HoldsExchange(lsChats'[Requester(p)],
                            <<userMessage(req[p].text), ReplyMessage(resp)>>))]_vars

\* C16: a chat page that is loading (its request is waiting for the
\* backend) does not stay loading forever: the loading state ends even when
\* the backend never answers.
C16_LoadingEnds ==
    \A p \in OneTab : isLoading[p] ~> ~isLoading[p]

\* C17: a step puts at most one POST in flight, and only a sendMessage call
\* that was admitted does; a call denied for quota puts none in flight, and
\* the step in which a request fails ends that request without posting it
\* again.
C17_NoAutomaticRetry ==
    [][\A p \in Pages :
          /\ InFlight(p)' <= InFlight(p) + 1
          /\ (InFlight(p)' > InFlight(p)) => (Send(p) /\ outcome'[p] = "sent")
          /\ (Send(p) /\ outcome'[p] = "denied") => (InFlight(p)' = InFlight(p))
          /\ Failed(p) => (InFlight(p)' = InFlight(p) - 1)]_vars

\* C17 witness: a request has failed and nothing is in flight
C17_Witness ==
    \E p \in Pages :
        /\ outcome[p] = "error"
        /\ ~isLoading[p]
        /\ InFlight(p) = 0

\* the shown messages after are the shown messages before with every
\* loading placeholder turned into the reply and every other message left
\* where it was
PlaceholderReplaced(before, after, reply) ==
    /\ Len(after) = Len(before)
    /\ \A i \in 1..Len(before) :
          after[i] = IF before[i].isLoading THEN Shown(reply) ELSE before[i]

\* C21: in the step in which the response or failure of a page's request
\* arrives, the shown messages change by the loading placeholder becoming
\* the reply and by nothing else: every user message and every earlier
\* reply stays where it was, whatever was done to the current chat while
\* the request was in flight.
C21_OnlyPlaceholderReplaced ==
    [][\A p \in Pages : \A resp \in ChatResponses :
          (req[p] # Null /\ ReceiveAndSave(p, resp)) =>
              PlaceholderReplaced(messages[p], messages'[p], ReplyMessage(resp))]_vars

\* a step in which a login of page p succeeds
LoginSucceeds(p) ==
    \E e \in LoginEmails, w \in LoginPasswords :
        Login(p, e, w) /\ session'[p] # Null

\* C22: once logout has left a page unauthenticated and the storage
\* without a session, only a successful login makes the page authenticated
\* again or puts a session in the storage; the response of a request that
\* was in flight at logout does neither.
C22_LoggedOutUntilLogin ==
    [][\A p \in OneTab :
          (lsSession = Null /\ session[p] = Null
               /\ (session'[p] # Null \/ lsSession' # Null))
              => LoginSucceeds(p)]_vars

\* a chat operation of page p: create, save (by sendMessage), delete or
\* rename
ChatOperation(p) ==
    \/ handleNewChat(p)
    \/ \E text \in InputTexts : SendMessageAndSave(p, text)
    \/ \E c \in ChatIds(chatSessions[p]) : handleDeleteChat(p, c)
    \/ \E c \in ChatIds(chatSessions[p]), title \in RenameTitles : handleRenameChat(p, c, title)

\* C23: a successful login leaves the page with the chat sessions stored
\* for that user, and a chat operation of a logged-in page removes no
\* stored session of its user other than the one deleteChat is given.
C23_ChatsSurviveRelogin ==
    [][\A p \in OneTab :
          /\ (\E e \in FreeEmails, w \in LoginPasswords :
                  LoginAndShow(p, e, w) /\ session'[p] # Null)
                => (chatSessions'[p] = lsChats[session'[p].user.id])
          /\ (ChatPageShown(p) /\ ChatOperation(p))
                => (\A c \in ChatIds(lsChats[session[p].user.id]) :
                       \/ c \in ChatIds(lsChats'[session[p].user.id])
                       \/ handleDeleteChat(p, c))]_vars

\* C24: a page is loading exactly while its request is in flight; a
\* sendMessage call made while it is loading is ignored, leaving the
\* request, the loading flag and everything in flight as they were; and the
\* step in which the request settles, with a response or with any failure,
\* ends the loading.
C24_OneRequestWhileLoading ==
    /\ [](\A p \in OneTab : isLoading[p] <=> (req[p] # Null))
    /\ [][\A p \in OneTab :
             /\ (isLoading[p] /\ \E text \in InputTexts : SendMessage(p, text)) =>
                    (/\ outcome'[p] = "ignored"
                     /\ req' = req
                     /\ orphans' = orphans
                     /\ isLoading' = isLoading)
             /\ \A resp \in ChatResponses :
                   (req[p] # Null /\ Receive(p, resp)) =>
                       (~isLoading'[p] /\ req'[p] = Null)]_vars

\* C24 witness: a sendMessage call was ignored while the page's request is
\* in flight
C24_Witness ==
    \E p \in OneTab :
        /\ outcome[p] = "ignored"
        /\ isLoading[p]
        /\ req[p] # Null

\* C25: on every page the current chat id is null or the id of one of the
\* page's chat sessions.
C25_CurrentChatIdValid ==
    \A p \in Pages :
        currentChatId[p] = NoChat \/ currentChatId[p] \in ChatIds(chatSessions[p])

\* the users table holds an account for the address e
HasAccount(e) == RowsOf(users, e) # {}

\* a signup request whose name, password and plan pass the validations
OtherFieldsValid(r) ==
    r.name # <<>> /\ Len(r.password) >= 6 /\ r.plan \in validPlans

\* C26: no two rows of the users table hold the same email; a signup
\* request whose email, lower-cased and trimmed, has an account already is
\* answered 409 and leaves the table as it was, when the account is there
\* at the time the request arrives and when a concurrent signup has made it
\* by the time this one inserts.
C26_DuplicateSignupIs409 ==
    /\ [](\A i, j \in 1..Len(users) : (users[i].email = users[j].email) => (i = j))
    /\ [][\A h \in Handlers :
             /\ \A r \in SignupRequests :
                   (/\ OtherFieldsValid(r)
                    /\ r.email # <<>>
                    /\ HasAccount(NormalizedEmail(r.email))
                    /\ SignupCheck(h, r))
                       => (signups'[h].status = 409 /\ users' = users)
             /\ (/\ signups[h].pc = "inserting"
                 /\ HasAccount(NormalizedEmail(signups[h].request.email))
                 /\ SignupInsert(h))
                    => (signups'[h].status = 409 /\ users' = users)]_vars

\* the stored session is expired or does not parse
ExpiredOrUnparsable ==
    /\ lsSession # Null
    /\ (~Parsable(lsSession) \/ lsSession.expiresAt <= now)

\* C27: the mount effect of a page leaves the page authenticated only if
\* the stored session parses and its expiry time is strictly later than
\* now; a stored session that is expired or does not parse is removed from
\* the storage and the page stays unauthenticated; and whatever was stored
\* the auth loading flag is false afterwards.
C27_RestoreOnlyUnexpired ==
    [][\A p \in OneTab :
          MountEffect(p) =>
              /\ authLoading'[p] = FALSE
              /\ (session'[p] # Null) =>
                     (lsSession # Null /\ Parsable(lsSession) /\ lsSession.expiresAt > now)
              /\ ExpiredOrUnparsable => (lsSession' = Null /\ session'[p] = Null)]_vars

\* C27 witness: the page has loaded at the very instant a session that had
\* counted a query expired; the session is gone from the storage and the
\* page is unauthenticated and no longer loading
C27_Witness ==
    \E p \in OneTab :
        /\ pc[p] = "ready"
        /\ ~authLoading[p]
        /\ session[p] = Null
        /\ lsSession = Null
        /\ lsUsage["user_free_001"] \notin {Null, Corrupt}
        /\ now = SessionTtl

\* C28: a webhook request is answered 200 {received: true}, and its event
\* reaches the switch, only when its signature header is the signature of
\* its raw body under the webhook secret; a request whose header is
\* missing, empty, made under another key or made for another body is
\* answered 400 and no event is handled.
C28_SignatureBeforeHandling ==
    [][\A b \in Bodies, sig \in SignatureHeaders :
          WebhookPost(b, sig) =>
              IF sig = Sign(b, WebhookSecret)
              THEN /\ hookResponse'.status = 200
                   /\ hookResponse'.received
                   /\ Len(handled') = Len(handled) + 1
                   /\ handled'[Len(handled')].type = b.type
              ELSE /\ hookResponse'.status = 400
                   /\ ~hookResponse'.received
                   /\ handled' = handled]_vars

\* C28 witness: after an event was handled, a request carrying that
\* event's signature with another body was answered 400
C28_Witness ==
    /\ Len(handled) = 1
    /\ hookResponse # Null
    /\ hookResponse.status = 400
    /\ hookResponse.signature = Sign([type |-> handled[1].type], WebhookSecret)
    /\ hookResponse.body # [type |-> handled[1].type]

\* a waitlist submission with a name and a role, whose email is an address
\* once lower-cased and trimmed
SubmissionFor(r) ==
    /\ r.name # <<>>
    /\ r.role # ""
    /\ emailRegexTest(NormalizedEmail(r.email))

\* C29: after a waitlist submission the table holds exactly one row for
\* the submission's email, lower-cased and trimmed, and that row holds the
\* name, role and project of this submission, whatever was submitted for
\* that email before and in whatever letter case and with whatever
\* surrounding whitespace the email was typed.
C29_OneWaitlistEntry ==
    [][\A r \in WaitlistRequests :
          (SubmissionFor(r) /\ WaitlistPost(r)) =>
              LET e == NormalizedEmail(r.email) IN
              /\ Cardinality(RowsOf(waitlist', e)) = 1
              /\ \A i \in RowsOf(waitlist', e) : waitlist'[i] = WaitlistRow(r)]_vars

====
